---- MODULE Spec2Model ----
(***************************************************************************)
(* Model of ycrawler.py: the poll loop (poll_top_stories), one cycle       *)
(* (get_top_stories_with_references), the recursive walker                 *)
(* (get_page_with_references), URLFetcher.fetch behind the aiohttp         *)
(* connector, and the story store (get_path_of_story).                     *)
(*                                                                         *)
(* asyncio runs one task at a time and switches tasks only at an await, so *)
(* every action below is the code between two suspension points.           *)
(***************************************************************************)
EXTENDS Integers, Sequences, FiniteSets, TLC

\* --connections_limit, handed to TCPConnector(limit_per_host=...)
connections_limit == 1
\* --limit, the number of top stories taken from the top-list
limit == 2
\* aiohttp.TCPConnector's total limit, which the code leaves at its default
DefaultLimit == 100

\* ------------------------------------------------------------------------
\* The remote side: a top-list and an item resource, fixed for a behaviour.
\* An item is [type, haskids, kids, refs]; type "null" is an id that does
\* not resolve (the JSON body is null), haskids says whether the "kids" key
\* is present, refs are the distinct hrefs of the anchors in "text".
\* ------------------------------------------------------------------------
Item(t, hk, ks, rs) == [type |-> t, haskids |-> hk, kids |-> ks, refs |-> rs]

NullItem == Item("null", FALSE, <<>>, {})

Ids == 1 .. 4

\* a story with two comments; comment 2 has links and a reply, comment 3
\* has a link and no "kids" key
TreeWorld ==
    [top |-> <<1>>, topnull |-> FALSE,
     items |-> (1 :> Item("story", TRUE, <<2, 3>>, {}) @@
                2 :> Item("comment", TRUE, <<4>>, {"a", "b"}) @@
                3 :> Item("comment", FALSE, <<>>, {"a"}) @@
                4 :> Item("comment", FALSE, <<>>, {}))]

\* story 2 is in the top-list and is also a kid of story 1
NestedWorld ==
    [top |-> <<1, 2>>, topnull |-> FALSE,
     items |-> (1 :> Item("story", TRUE, <<2>>, {}) @@
                2 :> Item("story", TRUE, <<3>>, {}) @@
                3 :> Item("comment", FALSE, <<>>, {}) @@
                4 :> NullItem)]

\* a story with an empty kids list, a story without comments, and a third
\* rank beyond --limit
FlatWorld ==
    [top |-> <<1, 2, 3>>, topnull |-> FALSE,
     items |-> (1 :> Item("story", TRUE, <<>>, {}) @@
                2 :> Item("story", FALSE, <<>>, {}) @@
                3 :> Item("job", TRUE, <<4>>, {}) @@
                4 :> NullItem)]

\* a poll with one comment, and an id that does not resolve
OtherWorld ==
    [top |-> <<3, 4>>, topnull |-> FALSE,
     items |-> (1 :> NullItem @@
                2 :> Item("comment", TRUE, <<>>, {"b"}) @@
                3 :> Item("poll", TRUE, <<2>>, {}) @@
                4 :> NullItem)]

\* the top-list resource answers with JSON null
\* a story below a story, with two comments that carry the same link
DeepWorld ==
    [top |-> <<1>>, topnull |-> FALSE,
     items |-> (1 :> Item("story", TRUE, <<2>>, {}) @@
                2 :> Item("story", TRUE, <<3>>, {}) @@
                3 :> Item("comment", TRUE, <<4>>, {"a"}) @@
                4 :> Item("comment", TRUE, <<>>, {"a"}))]

NoTopWorld ==
    [top |-> <<>>, topnull |-> TRUE,
     items |-> [i \in Ids |-> NullItem]]

Worlds == {TreeWorld, NestedWorld, FlatWorld, OtherWorld, DeepWorld, NoTopWorld}

VARIABLES
    world,              \* the remote side
    pc,                 \* poll_top_stories: "start", "top_fetch", "gather", "waiting"
    cycle,              \* how the call of line 228 ended: "none" before the first
                        \* cycle, "running", "returned", "raised"
    fetch_counter,      \* URLFetcher.fetch_counter of the cycle's fetcher
    fetch_count,        \* poll_top_stories' fetch_count, the value line 228 got
    log,                \* the "Post .. has .. comments" lines of the cycle:
                        \* <<post_id, num_comments>>
    COLLECTED_STORIES,  \* the in-memory ledger
    report,             \* the report.csv files: directory :> rows (first field)
    dirs,               \* the story directories, as paths below --path
    files,              \* saved bodies, <<directory, url>>
    walk,               \* get_page_with_references tasks, by call chain
    fetch               \* URLFetcher.fetch calls, by <<call chain, url>>

vars == <<world, pc, cycle, fetch_counter, fetch_count, log, COLLECTED_STORIES, report, dirs, files, walk, fetch>>

\* ------------------------------------------------------------------------
\* helpers
\* ------------------------------------------------------------------------
Range(s) == {s[i] : i \in 1 .. Len(s)}

RECURSIVE SumSeq(_)
SumSeq(s) == IF s = <<>> THEN 0 ELSE Head(s) + SumSeq(Tail(s))

Last(s) == s[Len(s)]

\* response[:limit]
FirstN(s, n) == SubSeq(s, 1, IF n < Len(s) THEN n ELSE Len(s))

TopKey == << <<>>, "top" >>

\* the ClientSession of the cycle lives for the body of the `async with`
SessionOpen == pc \in {"top_fetch", "gather"}

\* host of a request: items and the top-list live on the item API, the
\* story page and every link on hosts of their own
HostOf(k) == IF k[2] \in {"item", "top"} THEN "firebase" ELSE k[2]

OpenKeys == {k \in DOMAIN fetch : fetch[k].st = "open"}

OpenOn(h) == {k \in OpenKeys : HostOf(k) = h}


\* ------------------------------------------------------------------------
\* URLFetcher.fetch
\* A call is [st, cause, ret, save, dest]:
\*   st    "new"    a task made by gather that has not run yet
\*         "queued" session.get is waiting for a connection
\*         "open"   the request holds a connection
\*         "ready"  the call is over, its caller has not resumed yet
\*   cause how the request ended: "ok", "timeout", "error"
\*   ret   what the call hands to its caller: "value", "none", "raise"
\*   save  dest_dir is given; dest is dest_dir
\* ------------------------------------------------------------------------
Call(st, cause, ret, save, dest) ==
    [st |-> st, cause |-> cause, ret |-> ret, save |-> save, dest |-> dest]

\* The outcome of fetch for its caller.  async_timeout raises
\* asyncio.TimeoutError when its `async with` block is left, which is outside
\* the try/except of line 43-51; inside the block the expiry arrives as a
\* cancellation, which `except asyncio.TimeoutError` does not match.  aiohttp's
\* own timeout, the only source of a TimeoutError inside the try, is 300 s and
\* cannot expire before FETCH_TIMEOUT.  Other errors are not handled either.
FetchReturn(cause, save) ==
    IF cause = "ok" THEN (IF save THEN "none" ELSE "value") ELSE "raise"

Ended(f, cause) == Call("ready", cause, FetchReturn(cause, f.save), f.save, f.dest)

\* the first slice of fetch: count, then session.get, which raises at once
\* on a closed session
Entered(save, dest) ==
    IF SessionOpen THEN Call("queued", "none", "none", save, dest)
    ELSE Ended(Call("new", "none", "none", save, dest), "error")

\* the connector: limit_per_host=connections_limit, limit left at its default
CanConnect(h) ==
    /\ Cardinality(OpenOn(h)) < connections_limit
    /\ Cardinality(OpenKeys) < DefaultLimit

\* leaving the `async with ClientSession` closes the connector: every request
\* still waiting or in flight fails
Closed(fs) ==
    [k \in DOMAIN fs |->
        IF fs[k].st \in {"queued", "open"} THEN Ended(fs[k], "error") ELSE fs[k]]

Without(fs, k) == [x \in DOMAIN fs \ {k} |-> fs[x]]

With(fs, k, v) == [x \in DOMAIN fs \cup {k} |-> IF x = k THEN v ELSE fs[x]]

\* StartFetch with the increment of line 42 lost
StartFetch_NoCount(k) ==
    /\ k \in DOMAIN fetch
    /\ fetch[k].st = "new"
    /\ fetch' = [fetch EXCEPT ![k] = Entered(fetch[k].save, fetch[k].dest)]
    /\ UNCHANGED <<world, log, fetch_count, cycle, pc, fetch_counter,
                   COLLECTED_STORIES, report, dirs, files, walk>>

\* a task made by gather for a link starts running
StartFetch(k) ==
    /\ k \in DOMAIN fetch
    /\ fetch[k].st = "new"
    /\ fetch_counter' = fetch_counter + 1
    /\ fetch' = [fetch EXCEPT ![k] = Entered(fetch[k].save, fetch[k].dest)]
    /\ UNCHANGED <<world, log, fetch_count, cycle, pc, COLLECTED_STORIES, report, dirs, files, walk>>

Acquire(k) ==
    /\ k \in DOMAIN fetch
    /\ fetch[k].st = "queued"
    /\ CanConnect(HostOf(k))
    /\ fetch' = [fetch EXCEPT ![k].st = "open"]
    /\ UNCHANGED <<world, log, fetch_count, cycle, pc, fetch_counter, COLLECTED_STORIES, report, dirs, files, walk>>

\* the response arrives; in save mode the body is written (save_content_to_disk)
Respond(k, cause) ==
    /\ k \in DOMAIN fetch
    /\ fetch[k].st = "open"
    /\ cause \in {"ok", "error"}
    /\ fetch' = [fetch EXCEPT ![k] = Ended(fetch[k], cause)]
    /\ files' = IF cause = "ok" /\ fetch[k].save
                THEN files \cup {<<fetch[k].dest, k[2]>>} ELSE files
    /\ UNCHANGED <<world, log, fetch_count, cycle, pc, fetch_counter, COLLECTED_STORIES, report, dirs, walk>>

\* fetch without the timeout of line 41
Timeout_Never(k) ==
    /\ FALSE
    /\ UNCHANGED vars

\* FETCH_TIMEOUT expires, while waiting for a connection or for the response
Timeout(k) ==
    /\ k \in DOMAIN fetch
    /\ fetch[k].st \in {"queued", "open"}
    /\ fetch' = [fetch EXCEPT ![k] = Ended(fetch[k], "timeout")]
    /\ UNCHANGED <<world, log, fetch_count, cycle, pc, fetch_counter, COLLECTED_STORIES, report, dirs, files, walk>>

\* ------------------------------------------------------------------------
\* the story store
\* ------------------------------------------------------------------------
\* line 82: str(story_id), which csv.writer also writes as the first field
str(i) == <<"1", "2", "3", "4">>[i]

\* line 108: int(row[0])
int(s) == CHOOSE i \in Ids : str(i) = s

\* the rows of the report.csv in directory d; none when the file is not there
Rows(d) == IF d \in DOMAIN report THEN report[d] ELSE <<>>

\* get_path_of_story that returns dest_dir instead of the story's directory
get_path_of_story_Base(dest_dir, story_id, fs) ==
    LET path == Append(dest_dir, story_id) IN
    IF path \in dirs
    THEN [dirs |-> dirs, mem |-> COLLECTED_STORIES, rep |-> report,
          raised |-> FALSE, path |-> dest_dir]
    ELSE IF fs = "mkdir_fail"
    THEN [dirs |-> dirs, mem |-> COLLECTED_STORIES, rep |-> report,
          raised |-> TRUE, path |-> dest_dir]
    ELSE IF fs = "report_fail"
    THEN [dirs |-> dirs \cup {path}, mem |-> Append(COLLECTED_STORIES, story_id),
          rep |-> report, raised |-> TRUE, path |-> dest_dir]
    ELSE [dirs |-> dirs \cup {path}, mem |-> Append(COLLECTED_STORIES, story_id),
          rep |-> With(report, dest_dir, Append(Rows(dest_dir), str(story_id))),
          raised |-> FALSE, path |-> dest_dir]

\* get_path_of_story under filesystem answer fs: "ok", "mkdir_fail" (makedirs
\* raises) or "report_fail" (opening or writing report.csv raises).  The
\* directory and report.csv are both made in dest_dir, which for a story met
\* below another story is that story's directory.
get_path_of_story(dest_dir, story_id, fs) ==
    LET path == Append(dest_dir, story_id) IN
    IF path \in dirs
    THEN [dirs |-> dirs, mem |-> COLLECTED_STORIES, rep |-> report,
          raised |-> FALSE, path |-> path]
    ELSE IF fs = "mkdir_fail"
    THEN [dirs |-> dirs, mem |-> COLLECTED_STORIES, rep |-> report,
          raised |-> TRUE, path |-> path]
    ELSE IF fs = "report_fail"
    THEN [dirs |-> dirs \cup {path}, mem |-> Append(COLLECTED_STORIES, story_id),
          rep |-> report, raised |-> TRUE, path |-> path]
    ELSE [dirs |-> dirs \cup {path}, mem |-> Append(COLLECTED_STORIES, story_id),
          rep |-> With(report, dest_dir, Append(Rows(dest_dir), str(story_id))),
          raised |-> FALSE, path |-> path]

FsAnswers == {"ok", "mkdir_fail", "report_fail"}

\* load_processed_stories_list: the ids of the rows, in file order
load_processed_stories_list(story_dir) ==
    IF story_dir \in DOMAIN report
    THEN [i \in 1 .. Len(report[story_dir]) |-> int(report[story_dir][i])]
    ELSE <<>>

\* ------------------------------------------------------------------------
\* get_page_with_references
\* A task is [pc, dir, own, res]:
\*   pc   "new" (made by gather, not run yet), "item" (line 130), "story"
\*        (line 140), "links" (line 147), "kids" (line 157), "done", "failed"
\*   dir  story_dir, own  number_of_refs of this post, res  the returned pair
\* ------------------------------------------------------------------------
Task(p, d, n, r) == [pc |-> p, dir |-> d, own |-> n, res |-> r]

ItemOf(c) == world.items[Last(c)]

KidsOf(c) == {Append(c, ItemOf(c).kids[i]) : i \in 1 .. Len(ItemOf(c).kids)}

LinkKeys(c) == {k \in DOMAIN fetch : k[1] = c /\ k[2] \notin {"item", "story", "top"}}

\* Aggregate without line 150: the direct kids are not counted
Aggregate_NoDirect(kids, results, own) ==
    <<SumSeq([i \in 1 .. Len(results) |-> results[i][1]]),
      own + SumSeq([i \in 1 .. Len(results) |-> results[i][2]])>>

\* lines 150, 160-163: the pair a post returns from its kids' pairs
Aggregate(kids, results, own) ==
    <<Len(kids) + SumSeq([i \in 1 .. Len(results) |-> results[i][1]]),
      own + SumSeq([i \in 1 .. Len(results) |-> results[i][2]])>>

\* lines 150-157: make a task per kid; gather of no task is done at once
Spawn(c, d, n) ==
    IF ItemOf(c).kids = <<>>
    THEN [walk EXCEPT ![c] = Task("done", d, n, Aggregate(<<>>, <<>>, n))]
    ELSE [x \in DOMAIN walk \cup KidsOf(c) |->
            IF x = c THEN Task("kids", d, n, <<0, 0>>)
            ELSE IF x \in KidsOf(c) THEN Task("new", d, 0, <<0, 0>>)
            ELSE walk[x]]

\* a task made by gather starts: line 128-130, up to the first await
StartWalk(c) ==
    /\ c \in DOMAIN walk
    /\ walk[c].pc = "new"
    /\ walk' = [walk EXCEPT ![c].pc = "item"]
    /\ fetch_counter' = fetch_counter + 1
    /\ fetch' = With(fetch, <<c, "item">>, Entered(FALSE, <<>>))
    /\ UNCHANGED <<world, log, fetch_count, cycle, pc, COLLECTED_STORIES, report, dirs, files>>

\* line 130 raises
ItemRaised(c) ==
    /\ c \in DOMAIN walk
    /\ walk[c].pc = "item"
    /\ fetch[<<c, "item">>].st = "ready"
    /\ fetch[<<c, "item">>].ret = "raise"
    /\ walk' = [walk EXCEPT ![c].pc = "failed"]
    /\ fetch' = Without(fetch, <<c, "item">>)
    /\ UNCHANGED <<world, log, fetch_count, cycle, pc, fetch_counter, COLLECTED_STORIES, report, dirs, files>>

\* ItemLeaf that counts the post itself as a comment
ItemLeaf_CountsSelf(c) ==
    /\ c \in DOMAIN walk
    /\ walk[c].pc = "item"
    /\ fetch[<<c, "item">>].st = "ready"
    /\ fetch[<<c, "item">>].ret = "value"
    /\ ItemOf(c).type = "null" \/ ~ItemOf(c).haskids
    /\ walk' = [walk EXCEPT ![c] = Task("done", walk[c].dir, 0, <<1, 0>>)]
    /\ fetch' = Without(fetch, <<c, "item">>)
    /\ UNCHANGED <<world, log, fetch_count, cycle, pc, fetch_counter,
                   COLLECTED_STORIES, report, dirs, files>>

\* line 133-134: the base case
ItemLeaf(c) ==
    /\ c \in DOMAIN walk
    /\ walk[c].pc = "item"
    /\ fetch[<<c, "item">>].st = "ready"
    /\ fetch[<<c, "item">>].ret = "value"
    /\ ItemOf(c).type = "null" \/ ~ItemOf(c).haskids
    /\ walk' = [walk EXCEPT ![c] = Task("done", walk[c].dir, 0, <<0, 0>>)]
    /\ fetch' = Without(fetch, <<c, "item">>)
    /\ UNCHANGED <<world, log, fetch_count, cycle, pc, fetch_counter, COLLECTED_STORIES, report, dirs, files>>

\* line 136-140: a story
ItemStory(c, fs) ==
    /\ c \in DOMAIN walk
    /\ walk[c].pc = "item"
    /\ fetch[<<c, "item">>].st = "ready"
    /\ fetch[<<c, "item">>].ret = "value"
    /\ ItemOf(c).type = "story" /\ ItemOf(c).haskids
    /\ fs \in FsAnswers
    /\ LET g == get_path_of_story(walk[c].dir, Last(c), fs) IN
        /\ dirs' = g.dirs
        /\ COLLECTED_STORIES' = g.mem
        /\ report' = g.rep
        /\ IF g.raised
           THEN /\ walk' = [walk EXCEPT ![c].pc = "failed"]
                /\ fetch' = Without(fetch, <<c, "item">>)
                /\ UNCHANGED fetch_counter
           ELSE /\ walk' = [walk EXCEPT ![c] = Task("story", g.path, 0, <<0, 0>>)]
                /\ fetch' = With(Without(fetch, <<c, "item">>),
                                 <<c, "story">>, Entered(TRUE, g.path))
                /\ fetch_counter' = fetch_counter + 1
    /\ UNCHANGED <<world, log, fetch_count, cycle, pc, files>>

\* line 142-147: a comment; gather makes a task per distinct link
ItemComment(c) ==
    /\ c \in DOMAIN walk
    /\ walk[c].pc = "item"
    /\ fetch[<<c, "item">>].st = "ready"
    /\ fetch[<<c, "item">>].ret = "value"
    /\ ItemOf(c).type = "comment" /\ ItemOf(c).haskids
    /\ LET refs == ItemOf(c).refs
           n == Cardinality(refs)
           rest == Without(fetch, <<c, "item">>) IN
        IF refs = {}
        THEN /\ walk' = Spawn(c, walk[c].dir, n)
             /\ fetch' = rest
        ELSE /\ walk' = [walk EXCEPT ![c] = Task("links", walk[c].dir, n, <<0, 0>>)]
             /\ fetch' = [k \in DOMAIN rest \cup {<<c, l>> : l \in refs} |->
                            IF k \in DOMAIN rest THEN rest[k]
                            ELSE Call("new", "none", "none", TRUE, walk[c].dir)]
    /\ UNCHANGED <<world, log, fetch_count, cycle, pc, fetch_counter, COLLECTED_STORIES, report, dirs, files>>

\* neither a story nor a comment: straight to line 150
ItemOther(c) ==
    /\ c \in DOMAIN walk
    /\ walk[c].pc = "item"
    /\ fetch[<<c, "item">>].st = "ready"
    /\ fetch[<<c, "item">>].ret = "value"
    /\ ItemOf(c).type \notin {"null", "story", "comment"} /\ ItemOf(c).haskids
    /\ walk' = Spawn(c, walk[c].dir, 0)
    /\ fetch' = Without(fetch, <<c, "item">>)
    /\ UNCHANGED <<world, log, fetch_count, cycle, pc, fetch_counter, COLLECTED_STORIES, report, dirs, files>>

\* line 140 returns or raises
StoryReturned(c) ==
    /\ c \in DOMAIN walk
    /\ walk[c].pc = "story"
    /\ fetch[<<c, "story">>].st = "ready"
    /\ walk' = IF fetch[<<c, "story">>].ret = "raise"
               THEN [walk EXCEPT ![c].pc = "failed"]
               ELSE Spawn(c, walk[c].dir, 0)
    /\ fetch' = Without(fetch, <<c, "story">>)
    /\ UNCHANGED <<world, log, fetch_count, cycle, pc, fetch_counter, COLLECTED_STORIES, report, dirs, files>>

\* line 147: gather returns when every link task has returned
LinksDone(c) ==
    /\ c \in DOMAIN walk
    /\ walk[c].pc = "links"
    /\ \A k \in LinkKeys(c) : fetch[k].st = "ready" /\ fetch[k].ret # "raise"
    /\ walk' = Spawn(c, walk[c].dir, walk[c].own)
    /\ fetch' = [k \in DOMAIN fetch \ LinkKeys(c) |-> fetch[k]]
    /\ UNCHANGED <<world, log, fetch_count, cycle, pc, fetch_counter, COLLECTED_STORIES, report, dirs, files>>

\* line 147: gather raises as soon as one link task has raised; the other
\* link tasks go on
LinksRaised(c) ==
    /\ c \in DOMAIN walk
    /\ walk[c].pc = "links"
    /\ \E k \in LinkKeys(c) : fetch[k].st = "ready" /\ fetch[k].ret = "raise"
    /\ walk' = [walk EXCEPT ![c].pc = "failed"]
    /\ UNCHANGED <<world, log, fetch_count, cycle, pc, fetch_counter, COLLECTED_STORIES, report, dirs, files, fetch>>

\* line 157-163: every kid has returned
KidsDone(c) ==
    /\ c \in DOMAIN walk
    /\ walk[c].pc = "kids"
    /\ \A x \in KidsOf(c) : walk[x].pc = "done"
    /\ LET kids == ItemOf(c).kids
           results == [i \in 1 .. Len(kids) |-> walk[Append(c, kids[i])].res] IN
        walk' = [walk EXCEPT ![c].pc = "done",
                             ![c].res = Aggregate(kids, results, walk[c].own)]
    /\ UNCHANGED <<world, log, fetch_count, cycle, pc, fetch_counter, COLLECTED_STORIES, report, dirs, files, fetch>>

\* line 157: gather raises as soon as one kid has raised; the other kids go on
KidsRaised(c) ==
    /\ c \in DOMAIN walk
    /\ walk[c].pc = "kids"
    /\ \E x \in KidsOf(c) : walk[x].pc = "failed"
    /\ walk' = [walk EXCEPT ![c].pc = "failed"]
    /\ UNCHANGED <<world, log, fetch_count, cycle, pc, fetch_counter, COLLECTED_STORIES, report, dirs, files, fetch>>

\* ------------------------------------------------------------------------
\* get_top_stories_with_references and poll_top_stories
\* ------------------------------------------------------------------------
\* Launch without the `if post_id not in COLLECTED_STORIES` of line 192
Launch_NoFilter(top, n, collected) == FirstN(top, n)

\* line 190-192: the ids a walker is made for
Launch(top, n, collected) ==
    SelectSeq(FirstN(top, n), LAMBDA id : id \notin Range(collected))

\* PollNext without the `except Exception` of line 235: the loop ends
PollNext_NoCatch(raised) == IF raised THEN "crashed" ELSE "waiting"

\* line 227-240: where the loop goes when the cycle has returned or raised
PollNext(raised) == "waiting"

TopWalkers == {c \in DOMAIN walk : Len(c) = 1}

\* no task of a cycle is left that could still run
Quiet ==
    /\ \A c \in DOMAIN walk : walk[c].pc \in {"done", "failed"}
    /\ \A k \in DOMAIN fetch : fetch[k].st = "ready"

\* line 224-185: a new session and fetcher, and the top-list request
BeginCycle ==
    /\ pc = "start"
    /\ pc' = "top_fetch"
    /\ cycle' = "running"
    /\ fetch_counter' = 1
    /\ walk' = <<>>
    /\ fetch' = With(<<>>, TopKey, Call("queued", "none", "none", FALSE, <<>>))
    /\ log' = <<>>
    /\ UNCHANGED <<world, fetch_count, COLLECTED_STORIES, report, dirs, files>>

\* line 185-192: the top-list is there, gather makes a task per id
TopReturned ==
    /\ pc = "top_fetch"
    /\ fetch[TopKey].st = "ready"
    /\ fetch[TopKey].ret = "value"
    /\ ~world.topnull
    /\ pc' = "gather"
    /\ walk' = LET ids == Launch(world.top, limit, COLLECTED_STORIES) IN
               [c \in {<<ids[i]>> : i \in 1 .. Len(ids)} |-> Task("new", <<>>, 0, <<0, 0>>)]
    /\ fetch' = Without(fetch, TopKey)
    /\ UNCHANGED <<world, log, fetch_count, cycle, fetch_counter, COLLECTED_STORIES, report, dirs, files>>

\* TopRaised with the exception of line 188 leaving the loop
TopRaised_Uncaught ==
    /\ pc = "top_fetch"
    /\ fetch[TopKey].st = "ready"
    /\ fetch[TopKey].ret = "raise" \/ world.topnull
    /\ pc' = "crashed"
    /\ cycle' = "raised"
    /\ fetch' = Without(fetch, TopKey)
    /\ UNCHANGED <<world, log, fetch_count, fetch_counter, COLLECTED_STORIES,
                   report, dirs, files, walk>>

\* line 185-188 raises, or line 191 slices None
TopRaised ==
    /\ pc = "top_fetch"
    /\ fetch[TopKey].st = "ready"
    /\ fetch[TopKey].ret = "raise" \/ world.topnull
    /\ pc' = PollNext(TRUE)
    /\ cycle' = "raised"
    /\ fetch' = Without(fetch, TopKey)
    /\ UNCHANGED <<world, log, fetch_count, fetch_counter, COLLECTED_STORIES, report, dirs, files, walk>>

\* line 190: the ids of the tasks list, in its order
Tasks == SelectSeq(FirstN(world.top, limit), LAMBDA id : <<id>> \in DOMAIN walk)

\* line 200: zip stops at the shorter of the two
Zip(a, b) ==
    [i \in 1 .. (IF Len(a) < Len(b) THEN Len(a) ELSE Len(b)) |-> <<a[i], b[i]>>]

\* line 195-204: every walker has returned; the report lines and the count
CycleDone ==
    /\ pc = "gather"
    /\ \A c \in TopWalkers : walk[c].pc = "done"
    /\ pc' = PollNext(FALSE)
    /\ cycle' = "returned"
    /\ log' = Zip(FirstN(world.top, limit), [i \in 1 .. Len(Tasks) |-> walk[<<Tasks[i]>>].res])
    /\ fetch_count' = fetch_counter
    /\ UNCHANGED <<world, fetch_counter, COLLECTED_STORIES, report, dirs, files, walk, fetch>>

\* line 195-198: gather raises as soon as one walker has raised; leaving the
\* `async with` closes the session under the tasks that are still running
CycleRaised ==
    /\ pc = "gather"
    /\ \E c \in TopWalkers : walk[c].pc = "failed"
    /\ pc' = PollNext(TRUE)
    /\ cycle' = "raised"
    /\ fetch' = Closed(fetch)
    /\ UNCHANGED <<world, log, fetch_count, fetch_counter, COLLECTED_STORIES, report, dirs, files, walk>>

\* line 240: the sleep is over.  The tasks a failed cycle left behind need no
\* network any more and are over long before the period has passed.
Sleep ==
    /\ pc = "waiting"
    /\ Quiet
    /\ pc' = "start"
    /\ UNCHANGED <<world, log, fetch_count, cycle, fetch_counter, COLLECTED_STORIES, report, dirs, files, walk, fetch>>

Chains == UNION {[1 .. n -> Ids] : n \in 1 .. Cardinality(Ids)}

Urls == {"item", "story", "top", "a", "b"}

Init ==
    /\ world \in Worlds
    /\ pc = "start"
    /\ cycle = "none"
    /\ fetch_counter = 0
    /\ fetch_count = 0
    /\ log = <<>>
    /\ COLLECTED_STORIES = <<>>
    /\ report = <<>>
    /\ dirs = {}
    /\ files = {}
    /\ walk = <<>>
    /\ fetch = <<>>

Next ==
    \/ BeginCycle
    \/ TopReturned
    \/ TopRaised
    \/ CycleDone
    \/ CycleRaised
    \/ Sleep
    \/ \E k \in DOMAIN fetch : StartFetch(k)
    \/ \E k \in DOMAIN fetch : Acquire(k)
    \/ \E k \in DOMAIN fetch : \E cause \in {"ok", "error"} : Respond(k, cause)
    \/ \E k \in DOMAIN fetch : Timeout(k)
    \/ \E c \in DOMAIN walk : StartWalk(c)
    \/ \E c \in DOMAIN walk : ItemRaised(c)
    \/ \E c \in DOMAIN walk : ItemLeaf(c)
    \/ \E c \in DOMAIN walk : \E fs \in FsAnswers : ItemStory(c, fs)
    \/ \E c \in DOMAIN walk : ItemComment(c)
    \/ \E c \in DOMAIN walk : ItemOther(c)
    \/ \E c \in DOMAIN walk : StoryReturned(c)
    \/ \E c \in DOMAIN walk : LinksDone(c)
    \/ \E c \in DOMAIN walk : LinksRaised(c)
    \/ \E c \in DOMAIN walk : KidsDone(c)
    \/ \E c \in DOMAIN walk : KidsRaised(c)

Spec == Init /\ [][Next]_vars

\* every step but the answer of a server
Progress ==
    \/ BeginCycle
    \/ TopReturned
    \/ TopRaised
    \/ CycleDone
    \/ CycleRaised
    \/ Sleep
    \/ \E k \in DOMAIN fetch : StartFetch(k) \/ Acquire(k) \/ Timeout(k)
    \/ \E c \in DOMAIN walk :
          \/ StartWalk(c) \/ ItemRaised(c) \/ ItemLeaf(c) \/ ItemComment(c)
          \/ ItemOther(c) \/ StoryReturned(c) \/ LinksDone(c) \/ LinksRaised(c)
          \/ KidsDone(c) \/ KidsRaised(c)
          \/ \E fs \in FsAnswers : ItemStory(c, fs)

\* the event loop runs a task that is ready, the connector hands a free
\* connection to a waiting request, and the timer of FETCH_TIMEOUT fires: a
\* server owes no answer, so no fairness is asked of Respond
FairSpec == Spec /\ WF_vars(Progress)

TypeOK ==
    /\ world \in Worlds
    /\ pc \in {"start", "top_fetch", "gather", "waiting"}
    /\ cycle \in {"none", "running", "returned", "raised"}
    /\ fetch_counter \in Nat
    /\ fetch_count \in Nat
    /\ \A i \in 1 .. Len(log) : log[i][1] \in Ids
    /\ \A d \in DOMAIN report : \A i \in 1 .. Len(report[d]) : int(report[d][i]) \in Ids
    /\ DOMAIN walk \subseteq Chains
    /\ \A c \in DOMAIN walk :
          walk[c].pc \in {"new", "item", "story", "links", "kids", "done", "failed"}
    /\ \A k \in DOMAIN fetch :
          /\ k[2] \in Urls
          /\ fetch[k].st \in {"new", "queued", "open", "ready"}
          /\ fetch[k].cause \in {"none", "ok", "timeout", "error"}
          /\ fetch[k].ret \in {"none", "value", "raise"}

\* ------------------------------------------------------------------------
\* properties
\* ------------------------------------------------------------------------
NoDup(s) == \A i, j \in 1 .. Len(s) : s[i] = s[j] => i = j

RECURSIVE Descendants(_)
Descendants(id) ==
    UNION {{world.items[id].kids[i]} \cup Descendants(world.items[id].kids[i]) :
             i \in 1 .. Len(world.items[id].kids)}

AllResolve(id) == \A d \in {id} \cup Descendants(id) : world.items[d].type # "null"

HasStoryBelow(id) == \E d \in Descendants(id) : world.items[d].type = "story"

\* C1: at most connections_limit requests hold a connection at any time,
\* whatever hosts they go to.
C1_GlobalCeiling == Cardinality(OpenKeys) <= connections_limit

\* C2: a fetch whose request ran into FETCH_TIMEOUT hands None to its
\* caller and does not raise.
C2_TimeoutReturnsNone ==
    \A k \in DOMAIN fetch : fetch[k].cause = "timeout" => fetch[k].ret = "none"

\* C3: a walk that has its own item and is waiting for its link fetches or
\* for its kids (none of them a story, so that only fetches can fail below
\* it) does not fail: it goes on to return its pair.
C3_FailureIsolation ==
    [][\A c \in DOMAIN walk :
        (/\ pc = "gather"
         /\ walk[c].pc \in {"links", "kids"}
         /\ ~HasStoryBelow(Last(c))
         /\ c \in DOMAIN walk') => walk'[c].pc # "failed"]_vars

\* C4: the poll loop never ends: whatever a cycle raises, the loop sleeps
\* and starts the next cycle, so a cycle starts again and again.
C4_PollForever == []<>(pc = "top_fetch")

\* C4 witness: a cycle has raised and the loop is sleeping
C4_Witness ==
    /\ pc = "waiting"
    /\ cycle = "raised"
    /\ \E c \in TopWalkers : walk[c].pc = "failed"

\* C5: after a cycle that ran to completion, the next cycle on the same
\* top-list launches no walker.
C5_SecondCycleEmpty ==
    (pc = "waiting" /\ cycle = "returned")
        => Launch(world.top, limit, COLLECTED_STORIES) = <<>>

\* C6: the walkers a cycle launches are exactly one for each id among the
\* first `limit` ids of the top-list that is not in the ledger at that time.
C6_LaunchFilter ==
    [][(pc = "top_fetch" /\ pc' = "gather") =>
        \A id \in Ids :
            (<<id>> \in DOMAIN walk')
                <=> (/\ id \in Range(FirstN(world.top, limit))
                     /\ id \notin Range(COLLECTED_STORIES))]_vars

\* C6 witness: a cycle in which a collected id of the top-list got no
\* walker and another id did
C6_Witness ==
    /\ pc = "gather"
    /\ TopWalkers # {}
    /\ \E id \in Range(FirstN(world.top, limit)) :
          id \in Range(COLLECTED_STORIES) /\ <<id>> \notin DOMAIN walk

\* C7: a story directory for an id exists iff the id has a row in
\* report.csv and an entry in the in-memory ledger.
C7_Pairing ==
    \A id \in Ids :
        (\E d \in dirs : Last(d) = id)
            <=> (/\ id \in Range(load_processed_stories_list(<<>>))
                 /\ id \in Range(COLLECTED_STORIES))

\* C8: no story id is twice in the in-memory ledger or in report.csv, and
\* no story has two directories.
C8_NoDuplicates ==
    /\ NoDup(COLLECTED_STORIES)
    /\ NoDup(load_processed_stories_list(<<>>))
    /\ \A d, e \in dirs : Last(d) = Last(e) => d = e

\* C9: a walk of a comment returns as reference count the number of
\* distinct links of the comment (plus what its kids return), also when
\* the comment has no kids.
C9_CommentRefs ==
    \A c \in DOMAIN walk :
        (walk[c].pc = "done" /\ ItemOf(c).type = "comment") =>
            walk[c].res[2] =
                Cardinality(ItemOf(c).refs)
                + SumSeq([i \in 1 .. Len(ItemOf(c).kids) |->
                            walk[Append(c, ItemOf(c).kids[i])].res[2]])

\* C10: a walk that has returned, over a tree in which every item
\* resolves, returns as comment count the number of proper descendants of
\* its post.
C10_Aggregation ==
    \A c \in DOMAIN walk :
        (walk[c].pc = "done" /\ AllResolve(Last(c))) =>
            walk[c].res[1] = Cardinality(Descendants(Last(c)))

\* C10 witness: a root with two kids, one of them with a kid of its own,
\* has returned
C10_Witness ==
    \E c \in DOMAIN walk :
        /\ walk[c].pc = "done"
        /\ Len(ItemOf(c).kids) = 2
        /\ AllResolve(Last(c))
        /\ walk[c].res[1] = 3

\* the distinct links of the comments of the subtree of id
SubtreeLinks(id) ==
    UNION {world.items[d].refs :
             d \in {x \in {id} \cup Descendants(id) : world.items[x].type = "comment"}}

\* C11: a walk returns as reference count the number of distinct links in
\* the comment bodies of its whole subtree.
C11_SubtreeRefs ==
    \A c \in DOMAIN walk :
        walk[c].pc = "done" => walk[c].res[2] = Cardinality(SubtreeLinks(Last(c)))

\* C12: a walk whose item fetch returns null returns (0, 0) in that same
\* step, makes no further fetch and no kid task, and creates no directory
\* and no ledger entry; the item fetch is the only fetch it ever has.
C12_MissingItem ==
    /\ [](\A k \in DOMAIN fetch :
            (k[1] # <<>> /\ ItemOf(k[1]).type = "null") => k[2] = "item")
    /\ [][\A c \in DOMAIN walk :
            (/\ walk[c].pc = "item"
             /\ ItemOf(c).type = "null"
             /\ c \in DOMAIN walk'
             /\ walk'[c].pc # "item"
             /\ fetch[<<c, "item">>].ret = "value")
            => (/\ walk'[c].pc = "done"
                /\ walk'[c].res = <<0, 0>>
                /\ DOMAIN walk' = DOMAIN walk
                /\ DOMAIN fetch' = DOMAIN fetch \ {<<c, "item">>}
                /\ fetch_counter' = fetch_counter
                /\ UNCHANGED <<dirs, COLLECTED_STORIES, report, files>>)]_vars

\* C12 witness: the walk of an id that does not resolve has returned
C12_Witness ==
    \E c \in DOMAIN walk :
        /\ ItemOf(c).type = "null"
        /\ walk[c].pc = "done"
        /\ walk[c].res = <<0, 0>>

\* the fetch calls of a walk that has returned
CallsOf(c) ==
    1 + (IF ItemOf(c).type = "story" /\ ItemOf(c).haskids THEN 1 ELSE 0)
      + (IF ItemOf(c).type = "comment" /\ ItemOf(c).haskids
         THEN Cardinality(ItemOf(c).refs) ELSE 0)

RECURSIVE SumCalls(_)
SumCalls(S) ==
    IF S = {} THEN 0
    ELSE LET x == CHOOSE y \in S : TRUE IN CallsOf(x) + SumCalls(S \ {x})

\* the calls of fetch that begin in a step
EnteredNow ==
    {k \in DOMAIN fetch' :
        /\ fetch'[k].st # "new"
        /\ k \notin DOMAIN fetch \/ fetch[k].st = "new"}

\* C13: the counter of a cycle starts at 0 and goes up by one with each call
\* of fetch and in no other way, and the count a cycle reports is the number
\* of calls of fetch made in the cycle.
C13_FetchCounter ==
    /\ [][fetch_counter' = (IF pc = "start" THEN 0 ELSE fetch_counter)
                            + Cardinality(EnteredNow)]_vars
    /\ []((pc = "waiting" /\ cycle = "returned") =>
            /\ fetch_count = fetch_counter
            /\ fetch_count = 1 + SumCalls(DOMAIN walk))

\* C13 witness: a cycle with item, story and link fetches has reported
C13_Witness ==
    /\ pc = "waiting"
    /\ cycle = "returned"
    /\ fetch_count = 8

\* C14: load_processed_stories_list on the base directory returns every id
\* for which a directory was created in the base directory, and the empty
\* list when there is no report.csv.
C14_RoundTrip ==
    /\ \A d \in dirs :
          Len(d) = 1 => d[1] \in Range(load_processed_stories_list(<<>>))
    /\ <<>> \notin DOMAIN report => load_processed_stories_list(<<>>) = <<>>

\* C15: a cycle whose top-list fetch fails launches no walker and leaves
\* the ledgers and the directories as they were, and after the sleep the
\* next cycle starts.
C15_TopFailure ==
    /\ [](pc = "top_fetch" => walk = <<>>)
    /\ [][pc = "top_fetch" =>
            /\ UNCHANGED <<COLLECTED_STORIES, report, dirs>>
            /\ pc' # "gather" => (pc' \in {"top_fetch", "waiting"} /\ walk' = <<>>)]_vars
    /\ (pc = "waiting" /\ cycle = "raised" /\ walk = <<>>) ~> (pc = "top_fetch")

\* C15 witness: the top-list fetch of a cycle has failed after an earlier
\* cycle had collected a story
C15_Witness ==
    /\ pc = "waiting"
    /\ cycle = "raised"
    /\ walk = <<>>
    /\ COLLECTED_STORIES # <<>>

\* C16: while the loop sleeps, no fetch and no walker of the cycle that has
\* ended is still running.
C16_NoOverlap == pc = "waiting" => Quiet

\* C17: the id of a story is in the ledger only when the walk that was
\* launched for it has returned.
C17_LedgerProcessed ==
    \A c \in TopWalkers :
        walk[c].pc # "done" => Last(c) \notin Range(COLLECTED_STORIES)

\* C18: every fetch that was asked for ends, every walk ends, and every
\* cycle reaches the sleep.
C18_Termination ==
    /\ (~Quiet) ~> Quiet
    /\ (pc \in {"top_fetch", "gather"}) ~> (pc = "waiting")

\* C18 witness: a request waits behind the connection limit of its host
C18_Witness ==
    \E k \in DOMAIN fetch : fetch[k].st = "queued" /\ ~CanConnect(HostOf(k))

\* C19: every line that a returned cycle logs for a post id carries the
\* result of the walker that was launched for that id.
C19_PerIdReport ==
    (pc = "waiting" /\ cycle = "returned") =>
        \A i \in 1 .. Len(log) :
            /\ <<log[i][1]>> \in DOMAIN walk
            /\ log[i][2] = walk[<<log[i][1]>>].res

\* the directory of the nearest story on a call chain: the stories of the
\* chain that have kids, as a path
StoryPath(c) ==
    SelectSeq(c, LAMBDA id : world.items[id].type = "story" /\ world.items[id].haskids)

====
